---------------------------- MODULE Spec2Model ----------------------------
(***************************************************************************)
(* A model of the chat agent's context-window and file-chunking core:     *)
(*   - chunk_text                 (src/main.py, src/app/core/utils.py)    *)
(*   - build_messages_with_limit  (src/main.py, src/app/llm/llm_handler)  *)
(*   - the Streamlit session: sidebar file-context manager, chat turn,    *)
(*     history purge (src/main.py and src/app/ui/components.py)           *)
(*                                                                         *)
(* Texts (file contents, message contents) are sequences of one-character *)
(* strings.  Python's None is the empty tuple <<>> and a present value x  *)
(* is the one-element tuple <<x>>, so that None, the empty string and the *)
(* empty list stay three different values.                                 *)
(***************************************************************************)
EXTENDS Integers, Sequences, FiniteSets, TLC

VARIABLES
    \* ---- chunk_text, one loop iteration per step -------------------------
    text,               \* parameter text
    chunk_size,         \* parameter chunk_size
    i,                  \* the cursor
    chunks,             \* the list being built / returned
    chunk_pc,           \* "off" | "start" | "loop" | "done"
    cuts,               \* cuts[k]: how chunk k was closed, "hard" | "newline"
    \* ---- build_messages_with_limit, one call per step --------------------
    trim_messages,      \* parameter messages
    max_chars,          \* parameter max_chars
    trim_result,        \* the returned list
    trim_pc,            \* "off" | "start" | "done"
    \* ---- the session ------------------------------------------------------
    variant,            \* "main" (src/main.py) | "app" (src/app/ui/components.py)
    window_size,        \* CONVERSATION_WINDOW_MESSAGES
    messages,           \* st.session_state.messages
    db,                 \* rows of the messages table, in insertion order
    file_context,       \* st.session_state.file_context       (None | text)
    file_context_full,  \* st.session_state.file_context_full  (None | text)
    file_chunks,        \* st.session_state.file_chunks        (None | list of text)
    file_chunk_index,   \* st.session_state.file_chunk_index
    chunk_by_tokens,    \* st.session_state.chunk_by_tokens
    file_tokens_limit,  \* st.session_state.file_tokens_limit
    auto_advance_chunks,\* st.session_state.auto_advance_chunks
    agent_mode,         \* st.session_state.agent_mode (the app's selectbox)
    screen,             \* the widgets the last script run left in the browser
    pc,                 \* "off" | "idle" | "calling" (the upstream call in flight)
    buffer,             \* fragments received from the upstream stream so far
    messages_to_send,   \* the payload of the upstream call in flight, else empty
    last_event,         \* the last upload, purge, mode change or turn step, else "none"
    \* ---- the display loop of the chat, one call per step -------------------
    display_window,     \* DISPLAY_WINDOW_MESSAGES
    to_render,          \* the messages the loop renders
    display_pc,         \* "off" | "start" | "done"
    \* ---- the login rate limiter ---------------------------------------------
    limiter,            \* "off" | "memory" (src/utils.py) | "db" (src/app/core/utils.py)
    now,                \* the clock: time.time(), CURRENT_TIMESTAMP
    attempts,           \* self.attempts: identifier -> list of timestamps
    login_attempts,     \* rows of the login_attempts table, in insertion order
    recorded,           \* every attempt stored so far, in order (history)
    is_allowed_result,  \* the call is_allowed just returned from, else None
    \* ---- the login page of src/main.py --------------------------------------
    auth,               \* st.session_state.auth
    pwd,                \* the password field (key "pwd_input"), None if never typed
    login_form          \* the last script run drew the password form and its button

vars == <<text, chunk_size, i, chunks, chunk_pc, cuts,
          trim_messages, max_chars, trim_result, trim_pc,
          variant, window_size, messages, db, file_context, file_context_full,
          file_chunks, file_chunk_index, chunk_by_tokens, file_tokens_limit,
          auto_advance_chunks, agent_mode, screen, pc, buffer, messages_to_send,
          last_event, display_window, to_render, display_pc,
          limiter, now, attempts, login_attempts, recorded, is_allowed_result,
          auth, pwd, login_form>>

chunkVars == <<text, chunk_size, i, chunks, chunk_pc, cuts>>
trimVars == <<trim_messages, max_chars, trim_result, trim_pc>>
sessionVars == <<variant, window_size, messages, db, file_context, file_context_full,
                 file_chunks, file_chunk_index, chunk_by_tokens, file_tokens_limit,
                 auto_advance_chunks, agent_mode, screen, pc, buffer, messages_to_send,
                 last_event>>
displayVars == <<display_window, to_render, display_pc>>
limiterVars == <<limiter, now, attempts, login_attempts, recorded, is_allowed_result>>
authVars == <<auth, pwd, login_form>>

---------------------------------------------------------------------------
(* Bounds *)

\* longest text handed to chunk_text in the pure-function specification
MaxTextLen == 6
\* largest chunk_size tried in the pure-function specification
MaxChunkSize == 5
\* most history messages (after the system message) handed to the trimmer
MaxHistory == 3
\* largest character budget handed to the trimmer
MaxBudget == 5
\* largest CONVERSATION_WINDOW_MESSAGES a session is configured with
MaxWindow == 1
\* MESSAGES_MAX_CHARS of the session (12000 in the program's defaults)
MessagesMaxChars == 3
\* FILE_CONTEXT_MAX_CHARS of the session (8000 in the program's defaults)
FileContextMaxChars == 3
\* largest token limit the user sets
MaxTokensLimit == 2
\* longest uploaded file text (all texts up to this length are uploaded)
MaxFileLen == 4
\* most rows of the messages table before the user stops chatting
MaxStore == 2
\* most fragments one upstream stream delivers
MaxFragments == 1
\* largest DISPLAY_WINDOW_MESSAGES handed to the display loop
MaxDisplayWindow == 2
\* max_attempts of the rate limiter (5 in the program)
MaxAttempts == 2
\* the rolling window of the rate limiter in clock ticks (15 minutes in the
\* program)
WindowTicks == 2
\* the clock stops here
MaxTime == 4
\* most login attempts stored before the clients stop trying
MaxRecorded == 3
\* the age in clock ticks beyond which purge_old_messages deletes a row
\* (30 days in the program)
RetentionTicks == 3

---------------------------------------------------------------------------
(* Python values *)

None == <<>>
Some(x) == <<x>>
Get(o) == o[1]

NL == "\n"

Min(a, b) == IF a <= b THEN a ELSE b
Max(a, b) == IF a >= b THEN a ELSE b

\* all sequences over S of length 0..n
SeqsUpTo(S, n) == UNION {[1..k -> S] : k \in 0..n}

\* Python s[lo:hi] for 0 <= lo, with hi clipped to len(s)
Slice(s, lo, hi) == SubSeq(s, lo + 1, Min(hi, Len(s)))

\* Python s[start:] for any integer start (a negative start counts from the end)
SliceFrom(s, start) ==
    LET n == Len(s)
        lo == IF start < 0 THEN Max(n + start, 0) ELSE Min(start, n)
    IN  SubSeq(s, lo + 1, n)

RECURSIVE Concat(_)
\* "".join(parts)
Concat(parts) == IF parts = <<>> THEN <<>> ELSE Head(parts) \o Concat(Tail(parts))

RECURSIVE SumLen(_)
\* sum(len(m["content"]) for m in ms)
SumLen(ms) == IF ms = <<>> THEN 0 ELSE Len(Head(ms).content) + SumLen(Tail(ms))

---------------------------------------------------------------------------
(* chunk_text *)

\* text.rfind("\n", lo, hi): the highest index k with lo <= k < hi and
\* text[k] = "\n" (0-based), or -1
RFindNewline(t, lo, hi) ==
    LET hits == {k \in lo..(Min(hi, Len(t)) - 1) : t[k + 1] = NL}
    IN  IF hits = {} THEN -1 ELSE CHOOSE k \in hits : \A j \in hits : j <= k

\* a threshold of half the chunk size
NewlineThresholdHalf(size) == size \div 2

\* int(0.6 * chunk_size); the float product floors to (6 * chunk_size) div 10
\* for every chunk_size >= 0 the program can see
NewlineThreshold(size) == (6 * size) \div 10

\* the condition of the `if` that moves the boundary to the newline
TakesNewline(t, size, cur) ==
    LET end0 == Min(cur + size, Len(t))
        newline_pos == RFindNewline(t, cur, end0)
    IN  newline_pos # -1 /\ newline_pos > cur + NewlineThreshold(size)

\* the value of `end` when the chunk is appended
ChunkEndAtNewlineNext(t, size, cur) ==
    LET end0 == Min(cur + size, Len(t))
        newline_pos == RFindNewline(t, cur, end0)
    IN  IF TakesNewline(t, size, cur) THEN newline_pos + 1 ELSE end0

ChunkEndOverrun(t, size, cur) ==
    LET end0 == Min(cur + size + 1, Len(t))
        newline_pos == RFindNewline(t, cur, end0)
    IN  IF TakesNewline(t, size, cur) THEN newline_pos ELSE end0

\* a boundary moved to the last newline of the window wherever it lies
ChunkEndAtAnyNewline(t, size, cur) ==
    LET end0 == Min(cur + size, Len(t))
        newline_pos == RFindNewline(t, cur, end0)
    IN  IF newline_pos # -1 THEN newline_pos ELSE end0

ChunkEnd(t, size, cur) ==
    LET end0 == Min(cur + size, Len(t))
        newline_pos == RFindNewline(t, cur, end0)
    IN  IF TakesNewline(t, size, cur) THEN newline_pos ELSE end0

\* the appended chunk text[i:end]
ChunkPieceSkipNewline(t, cur, end) ==
    Slice(t, IF cur > 0 /\ cur < Len(t) /\ t[cur + 1] = NL THEN cur + 1 ELSE cur, end)

ChunkPiece(t, cur, end) == Slice(t, cur, end)

RECURSIVE ChunkLoop(_, _, _, _)
\* the while loop, run to its end
ChunkLoop(t, size, cur, acc) ==
    IF cur < Len(t)
    THEN LET end == ChunkEnd(t, size, cur)
         IN  ChunkLoop(t, size, end, Append(acc, ChunkPiece(t, cur, end)))
    ELSE acc

\* a guard that wraps the text whether or not it is empty
DegenerateResultWrapsEmpty(t) == <<t>>

\* [text] if text else []
DegenerateResult(t) == IF t # <<>> THEN <<t>> ELSE <<>>

\* chunk_text(text, chunk_size)
ChunkText(t, size) ==
    IF size <= 0 \/ t = <<>>
    THEN DegenerateResult(t)
    ELSE ChunkLoop(t, size, 0, <<>>)

---------------------------------------------------------------------------
(* build_messages_with_limit *)

RECURSIVE SelectSkipping(_, _, _, _)
SelectSkipping(tail, budget, k, total) ==
    IF k = 0 THEN <<>>
    ELSE LET c == Len(tail[k].content)
         IN  IF total + c > budget
             THEN SelectSkipping(tail, budget, k - 1, total)
             ELSE Append(SelectSkipping(tail, budget, k - 1, total + c), tail[k])

RECURSIVE SelectCheckBeforeAdd(_, _, _, _)
SelectCheckBeforeAdd(tail, budget, k, total) ==
    IF k = 0 THEN <<>>
    ELSE LET c == Len(tail[k].content)
         IN  IF total > budget
             THEN <<>>
             ELSE Append(SelectCheckBeforeAdd(tail, budget, k - 1, total + c), tail[k])

RECURSIVE SelectNewestAlways(_, _, _, _)
\* a selection that takes the newest message whatever its length
SelectNewestAlways(tail, budget, k, total) ==
    IF k = 0 THEN <<>>
    ELSE LET c == Len(tail[k].content)
         IN  IF total + c > budget /\ k < Len(tail)
             THEN <<>>
             ELSE Append(SelectNewestAlways(tail, budget, k - 1, total + c), tail[k])

RECURSIVE SelectFromTail(_, _, _, _)
\* the `for m in reversed(tail)` loop: k is the number of tail messages not yet
\* visited, sel the messages selected so far in chronological order
SelectFromTail(tail, budget, k, total) ==
    IF k = 0 THEN <<>>
    ELSE LET c == Len(tail[k].content)
         IN  IF total + c > budget
             THEN <<>>
             ELSE Append(SelectFromTail(tail, budget, k - 1, total + c), tail[k])

\* selected, reversed back to chronological order
SelectedHistory(tail, budget) == SelectFromTail(tail, budget, Len(tail), 0)

\* build_messages_with_limit(messages, max_chars)
BuildMessagesWithLimit(ms, budget) ==
    IF ms = <<>> THEN <<>>
    ELSE <<ms[1]>> \o SelectedHistory(Tail(ms), budget)

\* an in-place trim: the selection is written back into the caller's list
MessagesAfterBuildInPlace(ms, budget) == BuildMessagesWithLimit(ms, budget)

\* the caller's list after the call: the function reads messages[0], slices a
\* copy messages[1:], and appends only to its own list `selected`
MessagesAfterBuild(ms, budget) == ms

---------------------------------------------------------------------------
(* Input domains of the pure-function specifications *)

Alphabet == {"a", "b", NL}
Texts == SeqsUpTo(Alphabet, MaxTextLen)
ChunkSizes == (0 - 1)..MaxChunkSize

SystemMessage(content) == [role |-> "system", content |-> content]
UserMessage(content) == [role |-> "user", content |-> content]
AssistantMessage(content) == [role |-> "assistant", content |-> content]

\* message contents of length 0..MaxBudget-2 in one letter, and a second
\* one-letter content so that two messages of one length can differ
TrimContents == SeqsUpTo({"x"}, MaxBudget - 2) \cup {<<"y">>}
TrimTailMessages == [role : {"user", "assistant"}, content : TrimContents]
\* a short system prompt and one longer than every budget
TrimSystemMessages ==
    {SystemMessage(<<"S">>), SystemMessage([k \in 1..(MaxBudget + 1) |-> "S"])}
TrimHistories ==
    {<<>>} \cup {<<s>> \o tail : s \in TrimSystemMessages,
                                 tail \in SeqsUpTo(TrimTailMessages, MaxHistory)}
Budgets == 0..MaxBudget

\* nothing rendered yet
BlankScreen ==
    [settings |-> FALSE, limit_input |-> FALSE, prev |-> FALSE, next |-> FALSE,
     part |-> None, total |-> 0, purge |-> FALSE, chat |-> FALSE]

SessionOff ==
    /\ variant = "main" /\ window_size = 0 /\ messages = <<>> /\ db = <<>>
    /\ file_context = None /\ file_context_full = None /\ file_chunks = None
    /\ file_chunk_index = 0 /\ chunk_by_tokens = FALSE /\ file_tokens_limit = 0
    /\ auto_advance_chunks = FALSE /\ agent_mode = "G" /\ screen = BlankScreen
    /\ pc = "off" /\ buffer = <<>>
    /\ messages_to_send = <<>> /\ last_event = "none"

ChunkOff ==
    /\ text = <<>> /\ chunk_size = 0 /\ i = 0 /\ chunks = <<>>
    /\ chunk_pc = "off" /\ cuts = <<>>

TrimOff ==
    /\ trim_messages = <<>> /\ max_chars = 0 /\ trim_result = <<>> /\ trim_pc = "off"

DisplayOff ==
    /\ display_window = 0 /\ to_render = <<>> /\ display_pc = "off"

LimiterOff ==
    /\ limiter = "off" /\ now = 0 /\ attempts = <<>> /\ login_attempts = <<>>
    /\ recorded = <<>> /\ is_allowed_result = None

AuthOff ==
    /\ auth = FALSE /\ pwd = None /\ login_form = FALSE

\* the session has passed handle_authentication
Authenticated ==
    /\ auth = TRUE /\ pwd = None /\ login_form = FALSE

---------------------------------------------------------------------------
(* chunk_text as a process: the guard, the loop iterations, the return *)

InitChunk ==
    /\ text \in Texts
    /\ chunk_size \in ChunkSizes
    /\ i = 0
    /\ chunks = <<>>
    /\ chunk_pc = "start"
    /\ cuts = <<>>
    /\ TrimOff
    /\ SessionOff
    /\ DisplayOff
    /\ LimiterOff
    /\ AuthOff

\* if chunk_size <= 0 or not text: return [text] if text else []
ChunkGuard ==
    /\ chunk_pc = "start"
    /\ IF chunk_size <= 0 \/ text = <<>>
       THEN /\ chunks' = DegenerateResult(text)
            /\ chunk_pc' = "done"
       ELSE /\ chunks' = <<>>
            /\ chunk_pc' = "loop"
    /\ UNCHANGED <<text, chunk_size, i, cuts>>
    /\ UNCHANGED trimVars
    /\ UNCHANGED displayVars
    /\ UNCHANGED limiterVars
    /\ UNCHANGED authVars
    /\ UNCHANGED sessionVars

\* one iteration of `while i < n`
ChunkIterate ==
    /\ chunk_pc = "loop"
    /\ i < Len(text)
    /\ LET end == ChunkEnd(text, chunk_size, i)
       IN  /\ chunks' = Append(chunks, ChunkPiece(text, i, end))
           /\ i' = end
    /\ cuts' = Append(cuts, IF TakesNewline(text, chunk_size, i) THEN "newline" ELSE "hard")
    /\ UNCHANGED <<text, chunk_size, chunk_pc>>
    /\ UNCHANGED trimVars
    /\ UNCHANGED displayVars
    /\ UNCHANGED limiterVars
    /\ UNCHANGED authVars
    /\ UNCHANGED sessionVars

\* the loop ends: return chunks
ChunkReturn ==
    /\ chunk_pc = "loop"
    /\ i >= Len(text)
    /\ chunk_pc' = "done"
    /\ UNCHANGED <<text, chunk_size, i, chunks, cuts>>
    /\ UNCHANGED trimVars
    /\ UNCHANGED displayVars
    /\ UNCHANGED limiterVars
    /\ UNCHANGED authVars
    /\ UNCHANGED sessionVars

NextChunk == ChunkGuard \/ ChunkIterate \/ ChunkReturn

SpecChunk == InitChunk /\ [][NextChunk]_vars

\* the call runs on: a step that can be taken is taken
SpecChunkLive == SpecChunk /\ WF_vars(NextChunk)

---------------------------------------------------------------------------
(* build_messages_with_limit as a call *)

InitTrim ==
    /\ trim_messages \in TrimHistories
    /\ max_chars \in Budgets
    /\ trim_result = <<>>
    /\ trim_pc = "start"
    /\ ChunkOff
    /\ SessionOff
    /\ DisplayOff
    /\ LimiterOff
    /\ AuthOff

BuildPayload ==
    /\ trim_pc = "start"
    /\ trim_result' = BuildMessagesWithLimit(trim_messages, max_chars)
    /\ trim_messages' = MessagesAfterBuild(trim_messages, max_chars)
    /\ trim_pc' = "done"
    /\ UNCHANGED max_chars
    /\ UNCHANGED chunkVars
    /\ UNCHANGED displayVars
    /\ UNCHANGED limiterVars
    /\ UNCHANGED authVars
    /\ UNCHANGED sessionVars

NextTrim == BuildPayload

SpecTrim == InitTrim /\ [][NextTrim]_vars

---------------------------------------------------------------------------
(* The display loop of the chat as a call *)

DisplayWindows == (0 - 1)..MaxDisplayWindow

\* working lists: a system message followed by user and assistant messages
WorkingLists == TrimHistories \ {<<>>}

\* messages[1:], cut to messages_to_render[-display_window:] when longer than
\* display_window
MessagesToRender(ms, dw) ==
    LET messages_to_render == Tail(ms)
    IN  IF Len(messages_to_render) > dw
        THEN SliceFrom(messages_to_render, 0 - dw)
        ELSE messages_to_render

InitDisplay ==
    /\ messages \in WorkingLists
    /\ display_window \in DisplayWindows
    /\ to_render = <<>>
    /\ display_pc = "start"
    /\ variant = "main" /\ window_size = 0 /\ db = <<>>
    /\ file_context = None /\ file_context_full = None /\ file_chunks = None
    /\ file_chunk_index = 0 /\ chunk_by_tokens = FALSE /\ file_tokens_limit = 0
    /\ auto_advance_chunks = FALSE /\ agent_mode = "G" /\ screen = BlankScreen
    /\ pc = "off" /\ buffer = <<>>
    /\ messages_to_send = <<>> /\ last_event = "none"
    /\ ChunkOff
    /\ TrimOff
    /\ LimiterOff
    /\ AuthOff

\* _display_chat_messages(display_window): the slice is taken from a copy of
\* the working list, which is only read
DisplayChatMessages ==
    /\ display_pc = "start"
    /\ to_render' = MessagesToRender(messages, display_window)
    /\ display_pc' = "done"
    /\ UNCHANGED display_window
    /\ UNCHANGED sessionVars
    /\ UNCHANGED chunkVars
    /\ UNCHANGED trimVars
    /\ UNCHANGED limiterVars
    /\ UNCHANGED authVars

NextDisplay == DisplayChatMessages

SpecDisplay == InitDisplay /\ [][NextDisplay]_vars

---------------------------------------------------------------------------
(* The login rate limiter: RateLimiter of src/utils.py (a dict in memory) and
   of src/app/core/utils.py (the login_attempts table) *)

\* client identifiers; "unknown" is what the login page passes when it knows
\* no address
Identifiers == {"ip1", "ip2", "unknown"}

\* a stored attempt
Attempt(identifier, timestamp) == [identifier |-> identifier, timestamp |-> timestamp]

\* `timestamp > window_start`, window_start = current time - window
InsideWindow(timestamp, current_time) == timestamp > current_time - WindowTicks

\* a filter that keeps every stamp
AllStamps(stamps, current_time) == stamps

\* [timestamp for timestamp in stamps if timestamp > window_start]
RecentStamps(stamps, current_time) ==
    LET Recent(timestamp) == InsideWindow(timestamp, current_time)
    IN  SelectSeq(stamps, Recent)

\* count_recent_login_attempts(identifier, window_minutes): SELECT COUNT(*) ...
\* WHERE identifier = ? AND timestamp > ?
CountRecentLoginAttempts(rows, identifier, current_time) ==
    LET Hit(row) == row.identifier = identifier
                    /\ InsideWindow(row.timestamp, current_time)
    IN  Len(SelectSeq(rows, Hit))

\* `if not identifier or identifier == "unknown"`
NoIdentifier(identifier) == identifier = "unknown"

\* what is_allowed(identifier) returns in the current state
IsAllowedValue(identifier) ==
    IF limiter = "memory"
    THEN Len(RecentStamps(attempts[identifier], now)) < MaxAttempts
    ELSE \/ NoIdentifier(identifier)
         \/ CountRecentLoginAttempts(login_attempts, identifier, now) < MaxAttempts

InitLimiter ==
    /\ limiter \in {"memory", "db"}
    /\ now = 0
    /\ attempts = [identifier \in Identifiers |-> <<>>]
    /\ login_attempts = <<>>
    /\ recorded = <<>>
    /\ is_allowed_result = None
    /\ ChunkOff
    /\ TrimOff
    /\ SessionOff
    /\ DisplayOff
    /\ AuthOff

\* time passes
Tick ==
    /\ now < MaxTime
    /\ now' = now + 1
    /\ is_allowed_result' = None
    /\ UNCHANGED <<limiter, attempts, login_attempts, recorded>>
    /\ UNCHANGED <<chunkVars, trimVars, sessionVars, displayVars, authVars>>

\* is_allowed(identifier): the dict variant drops the old stamps of the
\* identifier and counts the rest, the table variant counts the recent rows
IsAllowed(identifier) ==
    /\ attempts' = IF limiter = "memory"
                   THEN [attempts EXCEPT
                           ![identifier] = RecentStamps(attempts[identifier], now)]
                   ELSE attempts
    /\ is_allowed_result' =
          Some([identifier |-> identifier, value |-> IsAllowedValue(identifier)])
    /\ UNCHANGED <<limiter, now, login_attempts, recorded>>
    /\ UNCHANGED <<chunkVars, trimVars, sessionVars, displayVars, authVars>>

\* record_attempt(identifier)
RecordAttempt(identifier) ==
    /\ Len(recorded) < MaxRecorded
    /\ now <= MaxTime - WindowTicks
    /\ IF limiter = "memory"
       THEN /\ attempts' = [attempts EXCEPT ![identifier] = Append(@, now)]
            /\ recorded' = Append(recorded, Attempt(identifier, now))
            /\ UNCHANGED login_attempts
       ELSE IF NoIdentifier(identifier)
            THEN UNCHANGED <<attempts, login_attempts, recorded>>
            ELSE /\ login_attempts' = Append(login_attempts, Attempt(identifier, now))
                 /\ recorded' = Append(recorded, Attempt(identifier, now))
                 /\ UNCHANGED attempts
    /\ is_allowed_result' = None
    /\ UNCHANGED <<limiter, now>>
    /\ UNCHANGED <<chunkVars, trimVars, sessionVars, displayVars, authVars>>

NextLimiter ==
    \/ Tick
    \/ \E identifier \in Identifiers : IsAllowed(identifier)
    \/ \E identifier \in Identifiers : RecordAttempt(identifier)

SpecLimiter == InitLimiter /\ [][NextLimiter]_vars

\* the clock does not stop before MaxTime
SpecLimiterLive == SpecLimiter /\ WF_vars(Tick)

---------------------------------------------------------------------------
(* The session: configuration and inputs *)

\* `* 4`: characters per estimated token
CharsPerToken == 4

WindowSizes == (0 - 1)..MaxWindow
TokenLimits == 1..MaxTokensLimit
\* the app's number_input has no min_value: zero and negative numbers can be
\* entered there
TokenLimitsOf(v) == IF v = "app" THEN (0 - 1)..MaxTokensLimit ELSE TokenLimits
\* AgentMode.CODE_GENERATOR (the selectbox's default) and one other mode
AgentModes == {"G", "A"}
\* texts process_uploaded_file returns for uploaded files: an empty one, one
\* that fits FILE_CONTEXT_MAX_CHARS exactly, one longer than it, and one with a
\* line break that is cut into three parts
FileTexts ==
    {[k \in 1..n |-> "a"] : n \in {0, FileContextMaxChars, MaxFileLen}}
        \cup {<<"a", "a", "a", NL, "a", "a", "a">>}
\* a short prompt and one longer than MESSAGES_MAX_CHARS
Prompts == {<<"q">>, [k \in 1..(MessagesMaxChars + 1) |-> "Q"]}
\* a row of the messages table: role, content, and the timestamp column
\* (DEFAULT CURRENT_TIMESTAMP, whole seconds; consecutive distinct seconds are
\* numbered 1, 2, ...)
Row(m, timestamp) == [role |-> m.role, content |-> m.content, timestamp |-> timestamp]

\* {"role": row["role"], "content": row["content"]}
MessageOf(row) == [role |-> row.role, content |-> row.content]

\* what the messages table holds when the session starts: nothing, or an
\* earlier conversation whose reply was saved in the second of its prompt or in
\* a later one
EarlierConversation(gap) ==
    <<Row(UserMessage(<<"u">>), 1), Row(AssistantMessage(<<"v">>), 1 + gap)>>
InitialStores == {<<>>} \cup {EarlierConversation(gap) : gap \in {0, 1}}

\* one delta.content of the stream, and the text the handlers yield on an error
Fragment == <<"r">>
ErrorText == <<"E">>

NoEvent == [type |-> "none"]

---------------------------------------------------------------------------
(* The session: the script run, as functions of the session state s *)

\* Python truthiness of an optional text or list
Truthy(o) == o # None /\ Get(o) # <<>>

\* the file block appended to the system prompt
FileContextBlock(ctx) ==
    IF Truthy(ctx) THEN <<"[">> \o Get(ctx) \o <<"]">> ELSE <<>>

\* main.py: BASE_SYSTEM_PROMPT + block; app: get_system_prompt(mode, file_context)
SystemPrompt(mode, ctx) ==
    (IF variant = "main" THEN <<"S">> ELSE <<mode>>) \o FileContextBlock(ctx)

RECURSIVE OrderByTimestampDesc(_)
\* ORDER BY timestamp DESC over rows kept in insertion order: the rows of the
\* latest second first; rows of one second come out in insertion order (the
\* scan of idx_messages_timestamp, and SQLite's sort without it)
OrderByTimestampDesc(rows) ==
    IF rows = <<>> THEN <<>>
    ELSE LET n == Len(rows)
             first == CHOOSE k \in 1..n :
                         /\ rows[k].timestamp = rows[n].timestamp
                         /\ \A j \in 1..(k - 1) : rows[j].timestamp # rows[n].timestamp
         IN  SubSeq(rows, first, n) \o OrderByTimestampDesc(SubSeq(rows, 1, first - 1))

\* load_messages(limit): SELECT ... ORDER BY timestamp DESC LIMIT ?, reversed;
\* a negative LIMIT is no limit in SQLite
LoadMessages(rows, limit) ==
    LET ordered == OrderByTimestampDesc(rows)
        fetched == IF limit < 0 THEN ordered
                   ELSE SubSeq(ordered, 1, Min(limit, Len(ordered)))
    IN  [k \in 1..Len(fetched) |-> MessageOf(fetched[Len(fetched) + 1 - k])]

\* save_message(role, content).  Rows saved during the session are given
\* consecutive seconds: the session reads the table back only into an empty
\* working list, at its start and after a purge, which empties the table, so
\* the seconds of its own rows are never read
SaveMessage(rows, m) ==
    Append(rows, Row(m, IF rows = <<>> THEN 1 ELSE rows[Len(rows)].timestamp + 1))

\* the system prompt is rebuilt; an empty working list is seeded from the store
PrepareChatMessages(s) ==
    LET sys == SystemMessage(SystemPrompt(s.agent_mode, s.file_context))
    IN  IF s.messages = <<>>
        THEN [s EXCEPT !.messages = <<sys>> \o LoadMessages(s.db, window_size)]
        ELSE [s EXCEPT !.messages = [s.messages EXCEPT ![1] = sys]]

\* a cut that slices the whole list instead of the history
TrimWindowLosesSystem(ms) ==
    LET history == Tail(ms)
    IN  IF Len(history) > window_size /\ window_size > 0
        THEN SliceFrom(ms, 0 - window_size)
        ELSE ms

\* "Recortar ventana"
TrimWindow(ms) ==
    LET history == Tail(ms)
    IN  IF Len(history) > window_size
        THEN <<ms[1]>> \o SliceFrom(history, 0 - window_size)
        ELSE ms

\* a handler that ignores a prompt equal to the last message
AppendUserOnce(s, prompt) ==
    IF s.messages[Len(s.messages)] = UserMessage(prompt)
    THEN s
    ELSE [s EXCEPT !.messages = TrimWindow(Append(s.messages, UserMessage(prompt))),
                   !.db = SaveMessage(s.db, UserMessage(prompt))]

\* the user's prompt is appended, saved, and the window is cut
AppendUser(s, prompt) ==
    [s EXCEPT !.messages = TrimWindow(Append(s.messages, UserMessage(prompt))),
              !.db = SaveMessage(s.db, UserMessage(prompt))]

\* the reply is appended and saved (no cut follows)
AppendAssistant(s, content) ==
    [s EXCEPT !.messages = Append(s.messages, AssistantMessage(content)),
              !.db = SaveMessage(s.db, AssistantMessage(content))]

\* the upload branch that stores an extracted text
StoreUpload(s, content) ==
    [s EXCEPT !.file_context_full = Some(content),
              !.file_chunks = None,
              !.file_chunk_index = 0,
              !.file_context = Some(content)]

\* "Determinar tamaño de parte efectivo"
ChunkChars(s) ==
    IF s.chunk_by_tokens THEN s.file_tokens_limit * CharsPerToken
    ELSE FileContextMaxChars

\* the condition under which the chunks are generated again
NeedsRechunk(s, cc) ==
    \/ s.file_chunks = None
    \/ (Get(s.file_chunks) # <<>> /\ Len(Get(s.file_chunks)[1]) > cc)

\* a regeneration that keeps the index the old chunks were read at
RechunkedKeepsIndex(s, cc) ==
    IF NeedsRechunk(s, cc)
    THEN [s EXCEPT !.file_chunks = Some(ChunkText(Get(s.file_context_full), cc))]
    ELSE s

\* "Generar o regenerar chunks con nuevo tamaño"
Rechunked(s, cc) ==
    IF NeedsRechunk(s, cc)
    THEN [s EXCEPT !.file_chunks = Some(ChunkText(Get(s.file_context_full), cc)),
                   !.file_chunk_index = 0]
    ELSE s

\* st.number_input("Parte", 1, total, value): the widget's identity is made of
\* its arguments, so a number typed into the widget the last run drew is
\* returned only if this run draws it with the same value and maximum;
\* otherwise the widget is new and returns `value`
PartInput(s, ev, value, total) ==
    IF ev.type = "jump" /\ s.screen.part = Some(value) /\ s.screen.total = total
    THEN ev.part
    ELSE value

\* what the sidebar leaves on screen when number_input raises (value outside
\* 1..total): the widgets drawn before it, and nothing after
ScreenAtPartError(s, prevEnabled) ==
    [settings |-> TRUE, limit_input |-> s.chunk_by_tokens, prev |-> prevEnabled,
     next |-> FALSE, part |-> None, total |-> 0, purge |-> FALSE, chat |-> FALSE]

\* main.py, render_sidebar: prev button, number_input and next button over the
\* chunks of r, then the visible context
NavigateMain(r, ev) ==
    LET total_chunks == Len(Get(r.file_chunks))
        current_idx == r.file_chunk_index
        afterPrev == IF ev.type = "prev" THEN Max(0, current_idx - 1) ELSE current_idx
        value == afterPrev + 1
        afterPart == PartInput(r, ev, value, total_chunks) - 1
        afterNext == IF ev.type = "next" THEN Min(total_chunks - 1, current_idx + 1)
                     ELSE afterPart
    IN  IF value < 1 \/ value > total_chunks
        THEN [s |-> [r EXCEPT !.file_chunk_index = afterPrev,
                              !.screen = ScreenAtPartError(r, current_idx > 0)],
              ok |-> FALSE]
        ELSE [s |-> [r EXCEPT
                       !.file_chunk_index = afterNext,
                       !.file_context = Some(Get(r.file_chunks)[afterNext + 1]),
                       !.screen = [settings |-> TRUE,
                                   limit_input |-> r.chunk_by_tokens,
                                   prev |-> current_idx > 0,
                                   next |-> current_idx < total_chunks - 1,
                                   part |-> Some(value),
                                   total |-> total_chunks,
                                   purge |-> FALSE, chat |-> FALSE]],
              ok |-> TRUE]

\* main.py, render_sidebar: the chunk manager
ChunkManagerMain(s, ev) ==
    IF Len(Get(s.file_context_full)) > ChunkChars(s)
    THEN NavigateMain(Rechunked(s, ChunkChars(s)), ev)
    ELSE [s |-> [s EXCEPT !.file_context = s.file_context_full,
                          !.screen = [BlankScreen EXCEPT
                                        !.settings = TRUE,
                                        !.limit_input = s.chunk_by_tokens]],
          ok |-> TRUE]

\* app/ui/components.py, _render_chunk_manager: the navigation over the chunks
\* of r, then the visible context
NavigateApp(r, ev) ==
    LET total == Len(Get(r.file_chunks))
        idx0 == r.file_chunk_index
        afterPrev == IF ev.type = "prev" THEN idx0 - 1 ELSE idx0
        value == idx0 + 1
        idx == PartInput(r, ev, value, total) - 1
        afterNext == IF ev.type = "next" THEN idx + 1 ELSE idx
    IN  IF value < 1 \/ value > total
        THEN [s |-> [r EXCEPT !.file_chunk_index = afterPrev,
                              !.screen = ScreenAtPartError(r, idx0 > 0)],
              ok |-> FALSE]
        ELSE [s |-> [r EXCEPT
                       !.file_chunk_index = afterNext,
                       !.file_context = Some(Get(r.file_chunks)[idx + 1]),
                       !.screen = [settings |-> TRUE,
                                   limit_input |-> r.chunk_by_tokens,
                                   prev |-> idx0 > 0,
                                   next |-> idx < total - 1,
                                   part |-> Some(value),
                                   total |-> total,
                                   purge |-> FALSE, chat |-> FALSE]],
              ok |-> TRUE]

\* app/ui/components.py, _render_chunk_manager
ChunkManagerApp(s, ev) ==
    IF Len(Get(s.file_context_full)) > ChunkChars(s)
    THEN NavigateApp(Rechunked(s, ChunkChars(s)), ev)
    ELSE [s |-> [s EXCEPT !.screen = [BlankScreen EXCEPT
                                        !.settings = TRUE,
                                        !.limit_input = s.chunk_by_tokens]],
          ok |-> TRUE]

ChunkManager(s, ev) ==
    IF variant = "main" THEN ChunkManagerMain(s, ev) ELSE ChunkManagerApp(s, ev)

\* the upload branch of the sidebar
AfterUpload(s, ev) ==
    IF ev.type = "upload" THEN StoreUpload(s, ev.content) ELSE s

\* the chunk manager is drawn when a file text is held
ChunkStage(s, ev) ==
    IF Truthy(s.file_context_full) THEN ChunkManager(s, ev)
    ELSE [s |-> [s EXCEPT !.screen = BlankScreen], ok |-> TRUE]

\* the purge button is drawn if nothing above it raised
PurgeButton(cm) ==
    IF cm.ok THEN [s |-> [cm.s EXCEPT !.screen.purge = TRUE], ok |-> TRUE] ELSE cm

\* the sidebar up to the purge button
RenderSidebar(s, ev) == PurgeButton(ChunkStage(AfterUpload(s, ev), ev))

\* "Borrar historial": delete_all_messages(), the working list and the visible
\* context are cleared (st.rerun() follows)
PurgeHistory(s) ==
    [s EXCEPT !.db = <<>>, !.messages = <<>>, !.file_context = None]

\* render_chat_interface up to the chat input
RenderChat(s) ==
    [PrepareChatMessages(s) EXCEPT !.screen.chat = TRUE]

\* the chat follows the sidebar unless the sidebar raised
ChatStage(sb) == IF sb.ok THEN RenderChat(sb.s) ELSE sb.s

\* one run of the script with no purge click: sidebar, then chat
RunOnce(s, ev) == ChatStage(RenderSidebar(s, ev))

\* the purge click: the state is cleared and st.rerun() starts a new run
PurgeStage(sb) == IF sb.ok THEN RunOnce(PurgeHistory(sb.s), NoEvent) ELSE sb.s

\* one run of the script for event ev
RunScript(s, ev) ==
    IF ev.type = "purge" THEN PurgeStage(RenderSidebar(s, ev)) ELSE RunOnce(s, ev)

\* a callback that empties the working list instead of installing the prompt
HandleAgentModeChangeClearing(s, mode) ==
    [s EXCEPT !.agent_mode = mode, !.messages = <<>>]

\* handle_agent_mode_change: the on_change callback of the mode selectbox
HandleAgentModeChange(s, mode) ==
    [s EXCEPT !.agent_mode = mode,
              !.messages = <<SystemMessage(SystemPrompt(mode, s.file_context))>>]

\* "Auto avanzar de parte, si corresponde"; the app reruns the script after it
AutoAdvance(s) ==
    IF s.auto_advance_chunks /\ Truthy(s.file_chunks)
       /\ s.file_chunk_index < Len(Get(s.file_chunks)) - 1
    THEN IF variant = "main"
         THEN [s EXCEPT !.file_chunk_index = s.file_chunk_index + 1,
                        !.file_context =
                            Some(Get(s.file_chunks)[s.file_chunk_index + 2])]
         ELSE RunScript([s EXCEPT !.file_chunk_index = s.file_chunk_index + 1],
                        NoEvent)
    ELSE s

---------------------------------------------------------------------------
(* The session: state, initial state, one action per user interaction *)

\* the session state as a record
Cur ==
    [messages |-> messages, db |-> db, file_context |-> file_context,
     file_context_full |-> file_context_full, file_chunks |-> file_chunks,
     file_chunk_index |-> file_chunk_index, chunk_by_tokens |-> chunk_by_tokens,
     file_tokens_limit |-> file_tokens_limit,
     auto_advance_chunks |-> auto_advance_chunks, agent_mode |-> agent_mode,
     screen |-> screen]

Assign(s) ==
    /\ messages' = s.messages
    /\ db' = s.db
    /\ file_context' = s.file_context
    /\ file_context_full' = s.file_context_full
    /\ file_chunks' = s.file_chunks
    /\ file_chunk_index' = s.file_chunk_index
    /\ chunk_by_tokens' = s.chunk_by_tokens
    /\ file_tokens_limit' = s.file_tokens_limit
    /\ auto_advance_chunks' = s.auto_advance_chunks
    /\ agent_mode' = s.agent_mode
    /\ screen' = s.screen

\* initialize_session_state, before the first run of the script
Init ==
    /\ variant \in {"main", "app"}
    /\ window_size \in WindowSizes
    /\ db \in InitialStores
    /\ messages = <<>>
    /\ file_context = None
    /\ file_context_full = None
    /\ file_chunks = None
    /\ file_chunk_index = 0
    /\ chunk_by_tokens = FALSE
    /\ file_tokens_limit = 1
    /\ auto_advance_chunks = FALSE
    /\ agent_mode = "G"
    /\ screen = BlankScreen
    /\ pc = "idle"
    /\ buffer = <<>>
    /\ messages_to_send = <<>>
    /\ last_event = "none"
    /\ ChunkOff
    /\ TrimOff
    /\ DisplayOff
    /\ LimiterOff
    /\ Authenticated

\* last_event names the last interaction if it was one of these, else "none"
RecordedEvents == {"upload", "upload_error", "purge", "mode"}

\* a script run has drawn the page
Drawn == screen # BlankScreen

\* an interaction that is served by one run of the script and leaves it idle
Interaction(s, ev) ==
    /\ pc = "idle"
    /\ Assign(RunScript(s, ev))
    /\ last_event' = IF ev.type \in RecordedEvents THEN ev.type ELSE "none"
    /\ UNCHANGED <<variant, window_size, pc, buffer, messages_to_send>>
    /\ UNCHANGED chunkVars
    /\ UNCHANGED trimVars
    /\ UNCHANGED displayVars
    /\ UNCHANGED limiterVars
    /\ UNCHANGED authVars

\* the first run, or a run started by a widget that changes nothing here
Rerun == Interaction(Cur, NoEvent)

\* "Analizar Archivo" on a file that process_uploaded_file turns into a text
UploadFile(content) ==
    /\ Drawn
    /\ Interaction(Cur, [type |-> "upload", content |-> content])

\* "Analizar Archivo" on a file that process_uploaded_file rejects
UploadError ==
    /\ Drawn
    /\ Interaction(Cur, [type |-> "upload_error"])

\* the checkbox "Cortar por tokens"
ToggleChunkByTokens ==
    /\ screen.settings
    /\ Interaction([Cur EXCEPT !.chunk_by_tokens = ~chunk_by_tokens],
                   [type |-> "toggle_tokens"])

\* the number_input "Límite de tokens"
SetTokensLimit(limit) ==
    /\ screen.limit_input
    /\ limit # file_tokens_limit
    /\ Interaction([Cur EXCEPT !.file_tokens_limit = limit], [type |-> "set_limit"])

\* the checkbox "Avanzar automáticamente"
ToggleAutoAdvance ==
    /\ screen.settings
    /\ Interaction([Cur EXCEPT !.auto_advance_chunks = ~auto_advance_chunks],
                   [type |-> "toggle_auto"])

\* the buttons and the number_input of the chunk navigation, as drawn
ClickPrev ==
    /\ screen.prev
    /\ Interaction(Cur, [type |-> "prev"])

ClickNext ==
    /\ screen.next
    /\ Interaction(Cur, [type |-> "next"])

JumpChunk(part) ==
    /\ screen.part # None
    /\ part \in 1..screen.total
    /\ part # Get(screen.part)
    /\ Interaction(Cur, [type |-> "jump", part |-> part])

\* the button "Borrar historial (SQLite)"
Purge ==
    /\ screen.purge
    /\ Interaction(Cur, [type |-> "purge"])

\* the app's mode selectbox: the callback runs, then the script
ChangeAgentMode(mode) ==
    /\ variant = "app"
    /\ Drawn
    /\ mode # agent_mode
    /\ Interaction(HandleAgentModeChange(Cur, mode), [type |-> "mode"])

\* the prompt is appended, saved and cut; the payload is built for the call
StartTurn(u) ==
    /\ Assign(u)
    /\ pc' = "calling"
    /\ messages_to_send' = BuildMessagesWithLimit(u.messages, MessagesMaxChars)

\* the run r that received the prompt: the turn starts unless the sidebar raised
ReceivePrompt(r, prompt) ==
    IF r.screen.chat
    THEN StartTurn(AppendUser(r, prompt))
    ELSE /\ Assign(r)
         /\ UNCHANGED <<pc, messages_to_send>>

\* st.chat_input returns a prompt: the script runs up to the upstream call
Submit(prompt) ==
    /\ pc = "idle"
    /\ screen.chat
    /\ Len(db) < MaxStore
    /\ ReceivePrompt(RunScript(Cur, [type |-> "submit"]), prompt)
    /\ buffer' = <<>>
    /\ last_event' = "submit"
    /\ UNCHANGED <<variant, window_size>>
    /\ UNCHANGED chunkVars
    /\ UNCHANGED trimVars
    /\ UNCHANGED displayVars
    /\ UNCHANGED limiterVars
    /\ UNCHANGED authVars

\* the reply text is complete: it is appended and saved, then the auto-advance
CompleteTurn(content, ev) ==
    /\ Assign(AutoAdvance(AppendAssistant(Cur, content)))
    /\ pc' = "idle"
    /\ buffer' = <<>>
    /\ last_event' = ev
    /\ messages_to_send' = <<>>
    /\ UNCHANGED <<variant, window_size>>
    /\ UNCHANGED chunkVars
    /\ UNCHANGED trimVars
    /\ UNCHANGED displayVars
    /\ UNCHANGED limiterVars
    /\ UNCHANGED authVars

\* client.chat.completions.create raises (APIStatusError): main.py reports it;
\* the app's get_groq_response yields the error text as the reply
UpstreamRejects ==
    /\ pc = "calling"
    /\ buffer = <<>>
    /\ IF variant = "main"
       THEN /\ pc' = "idle"
            /\ last_event' = "rejected"
            /\ UNCHANGED <<messages, db, file_context, file_context_full, file_chunks,
                           file_chunk_index, chunk_by_tokens, file_tokens_limit,
                           auto_advance_chunks, agent_mode, screen, buffer,
                           variant, window_size>>
            /\ messages_to_send' = <<>>
            /\ UNCHANGED chunkVars
            /\ UNCHANGED trimVars
            /\ UNCHANGED displayVars
            /\ UNCHANGED limiterVars
            /\ UNCHANGED authVars
       ELSE CompleteTurn(ErrorText, "rejected")

\* the stream delivers a fragment
StreamFragment ==
    /\ pc = "calling"
    /\ Len(buffer) < MaxFragments
    /\ buffer' = buffer \o Fragment
    /\ UNCHANGED <<messages, db, file_context, file_context_full, file_chunks,
                   file_chunk_index, chunk_by_tokens, file_tokens_limit,
                   auto_advance_chunks, agent_mode, screen, pc,
                   variant, window_size, messages_to_send, last_event>>
    /\ UNCHANGED chunkVars
    /\ UNCHANGED trimVars
    /\ UNCHANGED displayVars
    /\ UNCHANGED limiterVars
    /\ UNCHANGED authVars

\* the stream ends
StreamEnds ==
    /\ pc = "calling"
    /\ CompleteTurn(buffer, "stream_end")

\* the stream raises: stream_handler / get_groq_response catch it and yield an
\* error text after the fragments already yielded
StreamRaises ==
    /\ pc = "calling"
    /\ CompleteTurn(buffer \o ErrorText, "stream_raised")

Next ==
    \/ Rerun
    \/ \E content \in FileTexts : UploadFile(content)
    \/ UploadError
    \/ ToggleChunkByTokens
    \/ \E limit \in TokenLimitsOf(variant) : SetTokensLimit(limit)
    \/ ToggleAutoAdvance
    \/ ClickPrev
    \/ ClickNext
    \/ \E part \in 1..screen.total : JumpChunk(part)
    \/ Purge
    \/ \E mode \in AgentModes : ChangeAgentMode(mode)
    \/ \E prompt \in Prompts : Submit(prompt)
    \/ UpstreamRejects
    \/ StreamFragment
    \/ StreamEnds
    \/ StreamRaises

Spec == Init /\ [][Next]_vars

---------------------------------------------------------------------------
(* The login page of src/main.py: every script run starts with the age purge
   of the store, then handle_authentication gates the sidebar and the chat *)

\* st.session_state.get("client_ip", "unknown"): no code sets client_ip
ClientIp == "unknown"

\* the password whose hash is MASTER_PASSWORD_HASH, and a wrong one
MasterPassword == "master"
Passwords == {MasterPassword, "guess"}

\* SecurityUtils.verify_password(pwd, MASTER_PASSWORD_HASH)
VerifyPassword(p) == p = MasterPassword

\* purge_old_messages(days): DELETE FROM messages WHERE timestamp < purge_date
PurgeOldMessages(rows, current_time) ==
    LET Kept(row) == ~(row.timestamp < current_time - RetentionTicks)
    IN  SelectSeq(rows, Kept)

\* what the messages table holds when the login page is first opened:
\* nothing, or a conversation saved at clock reading 0
StoredConversation ==
    <<Row(UserMessage(<<"u">>), 0), Row(AssistantMessage(<<"v">>), 0)>>
AuthInitialStores == {<<>>, StoredConversation}

\* the script up to main(): init_db(), purge_old_messages(days=30)
ScriptStart(s) == [s EXCEPT !.db = PurgeOldMessages(s.db, now)]

\* a main() that renders the sidebar and the chat whatever
\* handle_authentication returns
UngatedRun(s) == RunScript(ScriptStart(s), NoEvent)

\* main() when handle_authentication stops the run or returns False: nothing
\* after it runs
UnauthenticatedRun(s) == ScriptStart(s)

\* a page that verifies the password before it asks the limiter
LoginOutcomePasswordFirst(p) ==
    IF VerifyPassword(p) THEN "login"
    ELSE IF ~IsAllowedValue(ClientIp) THEN "locked_out"
    ELSE "login_failed"

\* handle_authentication on the click of "Acceder": the limiter is asked
\* first and stops the run; then the password is verified
LoginOutcome(p) ==
    IF ~IsAllowedValue(ClientIp) THEN "locked_out"
    ELSE IF VerifyPassword(p) THEN "login"
    ELSE "login_failed"

InitAuth ==
    /\ variant = "main"
    /\ window_size = MaxWindow
    /\ db \in AuthInitialStores
    /\ messages = <<>>
    /\ file_context = None
    /\ file_context_full = None
    /\ file_chunks = None
    /\ file_chunk_index = 0
    /\ chunk_by_tokens = FALSE
    /\ file_tokens_limit = 1
    /\ auto_advance_chunks = FALSE
    /\ agent_mode = "G"
    /\ screen = BlankScreen
    /\ pc = "idle"
    /\ buffer = <<>>
    /\ messages_to_send = <<>>
    /\ last_event = "none"
    /\ limiter = "memory"
    /\ now = 0
    /\ attempts = [identifier \in Identifiers |-> <<>>]
    /\ login_attempts = <<>>
    /\ recorded = <<>>
    /\ is_allowed_result = None
    /\ auth = FALSE
    /\ pwd = None
    /\ login_form = FALSE
    /\ ChunkOff
    /\ TrimOff
    /\ DisplayOff

\* is_allowed(client_ip) as called by handle_authentication
AskLimiter ==
    /\ attempts' = [attempts EXCEPT ![ClientIp] = RecentStamps(attempts[ClientIp], now)]
    /\ is_allowed_result' =
          Some([identifier |-> ClientIp, value |-> IsAllowedValue(ClientIp)])

\* a script run of a session that is not authenticated, with no click: the
\* form is drawn unless the limiter stops the run
OpenLoginPage ==
    /\ ~auth
    /\ Assign(UnauthenticatedRun(Cur))
    /\ AskLimiter
    /\ login_form' = IsAllowedValue(ClientIp)
    /\ last_event' = "none"
    /\ UNCHANGED <<auth, pwd, limiter, now, login_attempts, recorded>>
    /\ UNCHANGED <<variant, window_size, pc, buffer, messages_to_send>>
    /\ UNCHANGED <<chunkVars, trimVars, displayVars>>

\* the run stopped by the limiter (st.stop())
LockedOut ==
    /\ Assign(UnauthenticatedRun(Cur))
    /\ AskLimiter
    /\ login_form' = FALSE
    /\ UNCHANGED <<auth, recorded>>

\* the password verifies: the flag is set and st.rerun() starts the run that
\* draws the sidebar and the chat
LoggedIn ==
    /\ Assign(RunScript(ScriptStart(Cur), NoEvent))
    /\ AskLimiter
    /\ auth' = TRUE
    /\ login_form' = FALSE
    /\ UNCHANGED recorded

\* the password does not verify: record_attempt(client_ip)
LoginFailed ==
    /\ Len(recorded) < MaxRecorded
    /\ Assign(UnauthenticatedRun(Cur))
    /\ attempts' = [attempts EXCEPT
                      ![ClientIp] = Append(RecentStamps(attempts[ClientIp], now), now)]
    /\ recorded' = Append(recorded, Attempt(ClientIp, now))
    /\ is_allowed_result' = None
    /\ login_form' = TRUE
    /\ UNCHANGED auth

\* the button "Acceder" of the form the last run drew, with password p typed
SubmitPassword(p) ==
    /\ ~auth
    /\ login_form
    /\ pwd' = Some(p)
    /\ last_event' = LoginOutcome(p)
    /\ CASE LoginOutcome(p) = "locked_out" -> LockedOut
         [] LoginOutcome(p) = "login" -> LoggedIn
         [] OTHER -> LoginFailed
    /\ UNCHANGED <<limiter, now, login_attempts>>
    /\ UNCHANGED <<variant, window_size, pc, buffer, messages_to_send>>
    /\ UNCHANGED <<chunkVars, trimVars, displayVars>>

\* a script run of the authenticated session: main() goes on to render_sidebar
\* and render_chat_interface
AuthenticatedRun ==
    /\ auth
    /\ Assign(RunScript(ScriptStart(Cur), NoEvent))
    /\ last_event' = "none"
    /\ UNCHANGED <<limiterVars, authVars>>
    /\ UNCHANGED <<variant, window_size, pc, buffer, messages_to_send>>
    /\ UNCHANGED <<chunkVars, trimVars, displayVars>>

NextAuth ==
    \/ Tick
    \/ OpenLoginPage
    \/ \E p \in Passwords : SubmitPassword(p)
    \/ AuthenticatedRun

SpecAuth == InitAuth /\ [][NextAuth]_vars

---------------------------------------------------------------------------
(* Properties of build_messages_with_limit, under SpecTrim *)

\* the last k messages of tail
TrailingRun(tail, k) == SubSeq(tail, Len(tail) - k + 1, Len(tail))

C3_TrimLongestTrailingRun ==
    (trim_pc = "done" /\ trim_messages # <<>>) =>
        LET tail == Tail(trim_messages)
            out == Tail(trim_result)
            k == Len(out)
        IN  /\ k <= Len(tail)
            /\ out = TrailingRun(tail, k)
            /\ SumLen(out) <= max_chars
            /\ \A j \in (k + 1)..Len(tail) : SumLen(TrailingRun(tail, j)) > max_chars

\* a call that kept some messages and dropped others, among the dropped ones an
\* old message short enough to fit the budget that was left
C3_Witness ==
    /\ trim_pc = "done"
    /\ Len(trim_result) >= 2
    /\ Len(trim_messages) >= Len(trim_result) + 2
    /\ Len(trim_messages[2].content) + SumLen(Tail(trim_result)) <= max_chars

---------------------------------------------------------------------------
(* Properties of chunk_text, under SpecChunk *)

\* the operator used by the session and the stepwise loop compute the same list
ChunkProcessAgrees == chunk_pc = "done" => chunks = ChunkText(text, chunk_size)

\* C4 - Chunk round-trip: for every text T and chunk size M > 0, concatenating
\* the chunks returned by chunk_text(T, M) in order yields exactly T.
C4_ChunkRoundTrip ==
    (chunk_pc = "done" /\ chunk_size > 0) => Concat(chunks) = text

\* a finished call with M > 0 that made a newline cut and returned several chunks
C4_Witness ==
    /\ chunk_pc = "done"
    /\ chunk_size > 0
    /\ Len(chunks) >= 3
    /\ \E k \in 1..Len(cuts) : cuts[k] = "newline"

\* C5 - Chunk bound: for every text T and M > 0, every chunk returned by
\* chunk_text(T, M) has length at most M.
C5_ChunkBound ==
    (chunk_pc = "done" /\ chunk_size > 0) =>
        \A k \in 1..Len(chunks) : Len(chunks[k]) <= chunk_size

\* a finished call with a chunk of exactly M characters (a hard cut) and a
\* shorter chunk closed at a newline
C5_Witness ==
    /\ chunk_pc = "done"
    /\ chunk_size > 0
    /\ \E k \in 1..Len(chunks) : Len(chunks[k]) = chunk_size /\ cuts[k] = "hard"
    /\ \E k \in 1..Len(chunks) : Len(chunks[k]) < chunk_size /\ cuts[k] = "newline"

\* C6 as stated - Newline ends the chunk: whenever chunk_text moves a chunk
\* boundary to a qualifying newline, that newline is the last character of the
\* chunk being closed.
C6_NewlineEndsChunk ==
    \A k \in 1..Len(cuts) :
        cuts[k] = "newline" => chunks[k][Len(chunks[k])] = NL

\* C6 as amended - whenever chunk_text moves a chunk boundary to a qualifying
\* newline, the chunk being closed stops right before that newline: the cursor
\* is left on the newline, which becomes the first character of the next chunk.
C6_NewlineStartsNextChunk ==
    \A k \in 1..Len(cuts) :
        cuts[k] = "newline" =>
            IF k < Len(chunks)
            THEN chunks[k + 1] # <<>> /\ chunks[k + 1][1] = NL
            ELSE chunk_pc = "loop" /\ i < Len(text) /\ text[i + 1] = NL

\* a finished call in which a chunk was closed at a newline and the next chunk
\* was produced
C6_Witness ==
    /\ chunk_pc = "done"
    /\ \E k \in 1..(Len(chunks) - 1) : cuts[k] = "newline"

---------------------------------------------------------------------------
(* Properties of the session, under Spec *)

\* the chunk size the next sidebar render works with
CurrentChunkChars ==
    IF chunk_by_tokens THEN file_tokens_limit * CharsPerToken ELSE FileContextMaxChars

\* C1 (window cap): with a positive window, the working list, once seeded,
\* never holds more than window_size + 1 messages (the system message and the
\* window), whatever user and assistant messages have been appended.
C1_WindowCap ==
    (window_size >= 1 /\ messages # <<>>) => Len(messages) <= window_size + 1

\* C7 (re-chunk on a threshold change): when a run of the script finds a file
\* loaded and chunked and a chunk size that differs from the one of the run
\* before, and the file is still longer than the new size, the chunks after the
\* run are chunk_text(full_text, new size), the index is 0 and the chunks
\* concatenate to the full text.
C7_RechunkOnThresholdChange ==
    [][(/\ pc = "idle" /\ pc' = "idle"
        /\ Truthy(file_chunks)
        /\ file_context_full' = file_context_full
        /\ Len(Get(file_context_full)) > CurrentChunkChars
        /\ CurrentChunkChars' # CurrentChunkChars
        /\ Len(Get(file_context_full)) > CurrentChunkChars')
       => (/\ file_chunks' = Some(ChunkText(Get(file_context_full), CurrentChunkChars'))
           /\ file_chunk_index' = 0
           /\ Concat(Get(file_chunks')) = Get(file_context_full))]_vars

\* C8 (unchunked invariant): after a run of the script, whenever a text is
\* loaded and is no longer than the active chunk size, no chunks are stored and the
\* visible context is the full text.
C8_Unchunked ==
    (/\ pc = "idle"
     /\ Drawn
     /\ Truthy(file_context_full)
     /\ Len(Get(file_context_full)) <= CurrentChunkChars)
    => (file_chunks = None /\ file_context = file_context_full)

\* C9 (chunk index validity): whenever chunks are stored, the chunk index is a
\* position of the chunk list.
C9_ChunkIndexValid ==
    file_chunks # None =>
        (0 <= file_chunk_index /\ file_chunk_index < Len(Get(file_chunks)))

\* C10 (upstream failure leaves no assistant entry): a turn whose upstream
\* call is rejected, or whose stream raises, ends with the store unchanged and
\* with no message added to the working list.
C10_NoAssistantOnFailure ==
    [][(pc = "calling" /\ pc' = "idle" /\ last_event' \in {"rejected", "stream_raised"})
       => (db' = db /\ Len(messages') = Len(messages))]_vars

\* C11 (working-list shape): a non-empty working list starts with a system
\* message, and every later element has role user or assistant.
C11_WorkingListShape ==
    messages # <<>> =>
        /\ messages[1].role = "system"
        /\ \A k \in 2..Len(messages) : messages[k].role \in {"user", "assistant"}

\* a turn has ended on a list that was seeded from the store, cut and appended to
C11_Witness ==
    /\ last_event = "stream_end"
    /\ Len(messages) >= 3
    /\ messages[1].role = "system"
    /\ messages[Len(messages)].role = "assistant"

\* C12 (degenerate window size): with window_size <= 0, once the prompt is
\* appended and the window is cut (the upstream call is about to be made), the
\* working list holds the system message and nothing else.
C12_DegenerateWindow ==
    (window_size <= 0 /\ pc = "calling") => Len(messages) = 1

\* C13 (purge destroys the file context): after a purge that went through
\* (the run it restarts has drawn the sidebar), no full text, no chunks and no
\* visible slice are held (each is None or empty), and the system prompt embeds
\* no file block.
C13_PurgeDestroysFileContext ==
    (last_event = "purge" /\ screen.purge) =>
        /\ ~Truthy(file_context)
        /\ ~Truthy(file_context_full)
        /\ ~Truthy(file_chunks)
        /\ (messages # <<>> => messages[1].content = SystemPrompt(agent_mode, None))


C15_DegenerateChunkInputs ==
    chunk_pc = "done" =>
        /\ (text = <<>> => chunks = <<>>)
        /\ ((text # <<>> /\ chunk_size <= 0) => chunks = <<text>>)

\* a call with a non-empty text and a non-positive size has returned
C15_Witness ==
    chunk_pc = "done" /\ Len(text) >= 2 /\ chunk_size <= 0 /\ chunks = <<text>>

\* the file is in the Chunked state: chunks are stored and the full text is
\* longer than the active chunk size
Chunked ==
    /\ Truthy(file_context_full)
    /\ Truthy(file_chunks)
    /\ Len(Get(file_context_full)) > CurrentChunkChars

\* C16 (the visible slice tracks the index): in the Chunked state, after every
\* run of the script and after every auto-advance, the slice embedded in the
\* system prompt is file_chunks[file_chunk_index].
C16_SliceTracksIndex ==
    (pc = "idle" /\ Drawn /\ screen.purge /\ Chunked) =>
        /\ file_chunk_index \in 0..(Len(Get(file_chunks)) - 1)
        /\ file_context = Some(Get(file_chunks)[file_chunk_index + 1])


\* C17 (auto-advance guard): the step that ends a turn changes the chunk index
\* only if the auto-advance option is on and the file is in the Chunked state,
\* and then by exactly one and not past the last chunk; otherwise it leaves
\* the index and the visible slice as they were.
C17_AutoAdvanceGuard ==
    [][(pc = "calling" /\ pc' = "idle") =>
          IF auto_advance_chunks /\ Chunked
          THEN \/ file_chunk_index' = file_chunk_index
               \/ /\ file_chunk_index' = file_chunk_index + 1
                  /\ file_chunk_index' < Len(Get(file_chunks))
          ELSE /\ file_chunk_index' = file_chunk_index
               /\ file_context' = file_context]_vars

\* the prompt of the turn in flight (the last row saved) is longer than
\* MESSAGES_MAX_CHARS
OversizedPromptInFlight ==
    /\ pc = "calling"
    /\ db # <<>>
    /\ db[Len(db)].role = "user"
    /\ Len(db[Len(db)].content) > MessagesMaxChars

\* C18 (oversized latest prompt): when the prompt of the turn is longer than
\* MESSAGES_MAX_CHARS, the payload of the upstream call is the system message
\* alone, the prompt is the last row of the store, and (for a window_size that
\* is not negative) the last element of the working list.
C18_OversizedPrompt ==
    OversizedPromptInFlight =>
        /\ messages_to_send = <<messages[1]>>
        /\ messages[1].role = "system"
        /\ (window_size >= 0 => messages[Len(messages)] = MessageOf(db[Len(db)]))

\* an oversized prompt is in flight after an earlier message of the session
C18_Witness ==
    /\ OversizedPromptInFlight
    /\ Len(messages) >= 3
    /\ Len(messages_to_send) = 1

RECURSIVE SumOfLens(_)
\* the total length of a list of texts
SumOfLens(parts) == IF parts = <<>> THEN 0 ELSE Len(Head(parts)) + SumOfLens(Tail(parts))

\* the cursor at which chunk k starts: the lengths of the chunks before it
ChunkStart(k) == SumOfLens(SubSeq(chunks, 1, k - 1))

\* the newline positions (0-based) inside the window of chunk k
NewlinesInWindow(k) ==
    {p \in ChunkStart(k)..(Min(ChunkStart(k) + chunk_size, Len(text)) - 1) :
        text[p + 1] = NL}

\* the last newline of the window of chunk k lies beyond cursor + floor(0.6 M)
LastNewlineQualifies(k) ==
    /\ NewlinesInWindow(k) # {}
    /\ \E p \in NewlinesInWindow(k) :
          /\ \A q \in NewlinesInWindow(k) : q <= p
          /\ p > ChunkStart(k) + ((6 * chunk_size) \div 10)

\* C19 (newline-cut threshold): for chunk_size M > 0, every chunk but the last
\* has length M (hard cut) or more than floor(0.6 M) (newline cut), and a
\* chunk is closed at a newline exactly when the last newline of its window
\* lies beyond cursor + floor(0.6 M).
C19_NewlineCutThreshold ==
    (chunk_pc = "done" /\ chunk_size > 0) =>
        /\ \A k \in 1..(Len(chunks) - 1) :
              \/ Len(chunks[k]) = chunk_size
              \/ Len(chunks[k]) > (6 * chunk_size) \div 10
        /\ \A k \in 1..Len(cuts) :
              /\ (cuts[k] = "newline") <=> LastNewlineQualifies(k)
              /\ cuts[k] = "hard" =>
                    Len(chunks[k]) = Min(chunk_size, Len(text) - ChunkStart(k))
              /\ cuts[k] = "newline" =>
                    /\ Len(chunks[k]) > (6 * chunk_size) \div 10
                    /\ Len(chunks[k]) < chunk_size
                    /\ text[ChunkStart(k) + Len(chunks[k]) + 1] = NL

\* a call has returned with a newline cut and a hard cut among its chunks
C19_Witness ==
    /\ chunk_pc = "done"
    /\ chunk_size > 0
    /\ \E k \in 1..Len(cuts) : cuts[k] = "newline"
    /\ \E k \in 1..(Len(cuts) - 1) : cuts[k] = "hard"
    /\ \E k \in 1..Len(cuts) : cuts[k] = "hard" /\ NewlinesInWindow(k) # {}

\* C20 (a mode change resets the window): the interaction that changes the
\* agent mode leaves a working list of exactly one element, the system message
\* built from the new mode and the current file slice; nothing is reloaded
\* from the store, and the store is left as it was.
C20_ModeChangeResetsWindow ==
    [][agent_mode' # agent_mode =>
          /\ messages' = <<SystemMessage(SystemPrompt(agent_mode', file_context'))>>
          /\ db' = db]_vars

\* the mode was changed with messages in the store, a window that would load
\* them, and a file slice in the prompt
C20_Witness ==
    /\ last_event = "mode"
    /\ agent_mode = "A"
    /\ db # <<>>
    /\ window_size >= 1
    /\ Truthy(file_context)
    /\ Len(messages) = 1


\* C21 (non-positive chunk threshold): when the active chunk size is <= 0 and
\* a non-empty file text is held, every run of the script ends with the whole
\* full text as the visible slice and in the system prompt, with the chunk
\* index 0, and with the sidebar and the chat drawn (nothing raised).
C21_NonPositiveThreshold ==
    (pc = "idle" /\ Drawn /\ Truthy(file_context_full) /\ CurrentChunkChars <= 0) =>
        /\ file_context = file_context_full
        /\ file_chunk_index = 0
        /\ screen.purge /\ screen.chat
        /\ messages # <<>>
        /\ messages[1].content = SystemPrompt(agent_mode, file_context_full)

\* a file that had been cut into several parts and read at a later part is
\* rendered with a chunk size that is not positive
C21_Witness ==
    /\ pc = "idle" /\ Drawn
    /\ Truthy(file_context_full)
    /\ Len(Get(file_context_full)) > FileContextMaxChars
    /\ CurrentChunkChars <= 0
    /\ file_chunks = Some(<<Get(file_context_full)>>)
    /\ messages # <<>>


\* C22 (a file processing error leaves the state unchanged): the interaction
\* in which process_uploaded_file returns an error leaves the full text, the
\* chunks, the chunk index and the visible slice as they were before it.
C22_UploadErrorKeepsState ==
    [][last_event' = "upload_error" =>
          /\ file_context_full' = file_context_full
          /\ file_chunks' = file_chunks
          /\ file_chunk_index' = file_chunk_index
          /\ file_context' = file_context]_vars


\* C25 (the slice stays within the active threshold): after a run of the
\* script, whenever the file is in the Chunked state under a positive chunk
\* size, every stored chunk, and the slice in the system prompt, is no longer
\* than the active chunk size.
C25_SliceWithinThreshold ==
    (pc = "idle" /\ Drawn /\ screen.purge /\ Chunked /\ CurrentChunkChars > 0) =>
        /\ \A k \in 1..Len(Get(file_chunks)) :
              Len(Get(file_chunks)[k]) <= CurrentChunkChars
        /\ Truthy(file_context) => Len(Get(file_context)) <= CurrentChunkChars

---------------------------------------------------------------------------
(* Properties of the display loop, under SpecDisplay *)

\* C23 (visible slice): for a display window that is not negative, the
\* messages rendered are the last min(display_window, n) of the n non-system
\* messages of the working list, in order, and none of them is the system
\* message.
C23_VisibleSlice ==
    (display_pc = "done" /\ display_window >= 0) =>
        LET history == Tail(messages)
            n == Len(history)
            k == Min(display_window, n)
        IN  /\ to_render = SubSeq(history, n - k + 1, n)
            /\ \A j \in 1..Len(to_render) : to_render[j].role # "system"


---------------------------------------------------------------------------
(* Properties of the rate limiter, under SpecLimiterLive *)

\* the number of attempts stored for the identifier that lie inside the window
RecordedInWindow(identifier) ==
    Cardinality({k \in 1..Len(recorded) :
                    /\ recorded[k].identifier = identifier
                    /\ recorded[k].timestamp > now - WindowTicks})

\* the attempts stored for the identifier
RecordedFor(identifier) ==
    LET Own(a) == a.identifier = identifier IN SelectSeq(recorded, Own)

\* is_allowed returns false exactly when max_attempts or more stored attempts
\* of the identifier lie inside the window
LockoutFollowsWindow ==
    is_allowed_result # None =>
        Get(is_allowed_result).value =
            (RecordedInWindow(Get(is_allowed_result).identifier) < MaxAttempts)

\* a step that stores nothing for an identifier and does not move the clock
\* does not change what is_allowed returns for it
OthersDoNotCount ==
    \A identifier \in Identifiers :
        (RecordedFor(identifier)' = RecordedFor(identifier) /\ now' = now) =>
            IsAllowedValue(identifier)' = IsAllowedValue(identifier)

\* C24 (temporary lockout): is_allowed(identifier) returns false when
\* max_attempts stored attempts of the identifier lie inside the rolling
\* window and true when fewer do; an identifier that is locked out is
\* eventually allowed again; and attempts stored for one identifier do not
\* change the result for another.
C24_TemporaryLockout ==
    /\ []LockoutFollowsWindow
    /\ [][OthersDoNotCount]_vars
    /\ \A identifier \in Identifiers :
          (~IsAllowedValue(identifier)) ~> IsAllowedValue(identifier)

\* is_allowed has returned true for an identifier that had been locked out
\* (max_attempts attempts less than a window apart), while attempts of another
\* identifier are stored
C24_Witness ==
    /\ is_allowed_result = Some([identifier |-> "ip1", value |-> TRUE])
    /\ Len(RecordedFor("ip1")) >= MaxAttempts
    /\ RecordedFor("ip1")[MaxAttempts].timestamp - RecordedFor("ip1")[1].timestamp
          < WindowTicks
    /\ RecordedFor("ip2") # <<>>


---------------------------------------------------------------------------
(* Properties of the working list against the store, under Spec *)

\* the messages saved in the store, in the order they were saved
SavedMessages == [k \in 1..Len(db) |-> MessageOf(db[k])]

\* C26 (the working list is a suffix of the store): the non-system messages
\* of the working list are, in order and with role and content, the last
\* messages saved in the store.
C26_WorkingListSuffixOfStore ==
    messages # <<>> =>
        LET history == Tail(messages)
        IN  /\ Len(history) <= Len(db)
            /\ history = SubSeq(SavedMessages, Len(db) - Len(history) + 1, Len(db))


\* while the upstream call is in flight the prompt of the turn is the last row
\* of the store and, for a window size that is not negative, the last element
\* of the working list
PromptRecordedWhileCalling ==
    pc = "calling" =>
        /\ db # <<>>
        /\ db[Len(db)].role = "user"
        /\ window_size >= 0 => messages[Len(messages)] = MessageOf(db[Len(db)])

\* a call that fails leaves every row of the store and every message of the
\* working list after the system message in place
FailedCallKeepsPrompt ==
    (pc = "calling" /\ pc' = "idle" /\ last_event' \in {"rejected", "stream_raised"}) =>
        /\ Len(db') >= Len(db)
        /\ SubSeq(db', 1, Len(db)) = db
        /\ Len(messages') >= Len(messages)
        /\ SubSeq(Tail(messages'), 1, Len(messages) - 1) = Tail(messages)

\* a submitted prompt adds one user row to the store whatever the store
\* holds, and one user message to the working list unless the window cut
\* removes an older message for it
SubmitAddsEntry ==
    (pc = "idle" /\ pc' = "calling") =>
        /\ Len(db') = Len(db) + 1
        /\ SubSeq(db', 1, Len(db)) = db
        /\ db'[Len(db')].role = "user"
        /\ (window_size = 0 \/ Len(messages) - 1 < window_size) =>
              /\ Len(messages') = Len(messages) + 1
              /\ Tail(messages') = Append(Tail(messages), MessageOf(db'[Len(db')]))

\* C27 (the user prompt is recorded before the upstream call): in every turn
\* the prompt is in the working list and in the store when the upstream model
\* is called; a failed call leaves it in both; and a prompt submitted again
\* adds a second user entry to both.
C27_PromptRecordedBeforeCall ==
    /\ []PromptRecordedWhileCalling
    /\ [][FailedCallKeepsPrompt /\ SubmitAddsEntry]_vars

\* the same prompt was submitted twice and both calls were rejected: the store
\* holds two equal user rows and the working list ends with the prompt
C27_Witness ==
    /\ pc = "idle"
    /\ last_event = "rejected"
    /\ Len(db) = 2
    /\ db[1].role = "user" /\ db[2].role = "user"
    /\ db[1].content = db[2].content
    /\ Len(messages) >= 2
    /\ messages[Len(messages)] = MessageOf(db[2])


---------------------------------------------------------------------------
(* Properties of the login page, under SpecAuth *)

\* C28 as stated (authentication gate): a step that leaves the auth flag false
\* changes neither the working list nor the file context nor the message
\* store, and the flag becomes true only in a run whose password field holds
\* the master password.
C28_AuthGate ==
    [][/\ ~auth' =>
            /\ messages' = messages
            /\ file_context' = file_context
            /\ file_context_full' = file_context_full
            /\ file_chunks' = file_chunks
            /\ file_chunk_index' = file_chunk_index
            /\ db' = db
       /\ (~auth /\ auth') => pwd' = Some(MasterPassword)]_vars


\* C28 as amended: a step that leaves the auth flag false changes neither the
\* working list nor the file context, and changes the message store only by
\* the age purge that every script run starts with (rows older than the
\* retention age are deleted); the flag becomes true only in a run whose
\* password field holds the master password.
C28_AuthGateButAgePurge ==
    [][/\ ~auth' =>
            /\ messages' = messages
            /\ file_context' = file_context
            /\ file_context_full' = file_context_full
            /\ file_chunks' = file_chunks
            /\ file_chunk_index' = file_chunk_index
            /\ db' \in {db, PurgeOldMessages(db, now)}
       /\ (~auth /\ auth') => pwd' = Some(MasterPassword)]_vars

\* a wrong password was submitted: the session is not authenticated, the
\* store holds rows, and no working list was built
C28_Witness ==
    /\ ~auth
    /\ last_event = "login_failed"
    /\ pwd = Some("guess")
    /\ db # <<>>
    /\ messages = <<>>


\* C29 (the lockout precedes the password check): a step taken while
\* is_allowed(client_ip) is false neither sets the auth flag nor records an
\* attempt, whatever password is submitted.
C29_LockoutBeforePassword ==
    [][~IsAllowedValue(ClientIp) =>
          /\ auth' = auth
          /\ recorded' = recorded
          /\ Len(attempts'[ClientIp]) <= Len(attempts[ClientIp])]_vars

\* the master password was submitted during a lockout and the run was stopped
C29_Witness ==
    /\ last_event = "locked_out"
    /\ pwd = Some(MasterPassword)
    /\ ~auth
    /\ ~IsAllowedValue(ClientIp)
    /\ Len(recorded) = MaxAttempts


---------------------------------------------------------------------------
(* Termination of chunk_text, under SpecChunkLive *)

\* every iteration of the loop moves the cursor forward and appends a chunk
\* that is not empty
IterationMakesProgress ==
    (chunk_pc = "loop" /\ chunks' # chunks) =>
        /\ i' > i
        /\ Len(chunks') = Len(chunks) + 1
        /\ chunks'[Len(chunks')] # <<>>

\* for M > 0 no chunk built or returned is empty and there are at most len(T)
\* of them
ChunksNonEmpty ==
    chunk_size > 0 =>
        /\ \A k \in 1..Len(chunks) : chunks[k] # <<>>
        /\ Len(chunks) <= Len(text)

\* C30 (chunking terminates with non-empty chunks): for every text and every
\* M > 0 the loop of chunk_text ends, the cursor strictly increases on every
\* iteration, every chunk is non-empty (a chunk that starts with the newline
\* left by a newline cut included), and there are at most len(T) chunks.
C30_ChunkingTerminates ==
    /\ []ChunksNonEmpty
    /\ [][IterationMakesProgress]_vars
    /\ <>(chunk_pc = "done")

\* a call with M > 0 has returned a chunk that starts with the newline at
\* which the chunk before it was closed
C30_Witness ==
    /\ chunk_pc = "done"
    /\ chunk_size > 0
    /\ \E k \in 1..(Len(chunks) - 1) :
          cuts[k] = "newline" /\ chunks[k + 1][1] = NL
    /\ Len(chunks) >= 3

====
